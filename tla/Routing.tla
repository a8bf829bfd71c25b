------------------------------ MODULE Routing -------------------------------
(***************************************************************************)
(* Packets finding their way: addresses, the accept rules and the built-in *)
(* logics that answer, forward and relay (emergence-engine/src/world.rs,   *)
(* logic.rs, builtin.rs).                                                  *)
(*                                                                         *)
(* One step puts the oldest packet on its link and runs every logic that   *)
(* takes it.  World models the limits of the queue and what happens when   *)
(* the network changes meanwhile.  A packet that agrees in everything with *)
(* one that waits is not queued again, so a fan-out of equal packets is    *)
(* one packet.  The network and the logics are a Scene, chosen at the      *)
(* start; only a panic changes them.  on_tick runs at any time: the        *)
(* schedule of a Beacon or a Scanner is left out.                          *)
(*                                                                         *)
(* A ping carries the node it was first sent from, as `about`, and a pong  *)
(* carries the payload of its ping.                                        *)
(***************************************************************************)
EXTENDS Routes, Relays

CONSTANTS
    Scenes,       \* [net, logic, asks: set of [node, via, from, to]]
    DefaultTtl,   \* Packet::DEFAULT_TTL
    MaxTicks      \* the bound on ticks in which a logic sends of its own accord

ASSUME RoutingAssumption ==
    /\ DefaultTtl \in Nat /\ MaxTicks \in Nat
    /\ IsFiniteSet(NodeIds \cup LinkIds)
    /\ \A scene \in Scenes :
          /\ InOrder(scene.net)
          /\ \A ask \in scene.asks :
                /\ {ask.from, ask.to} \subseteq PacketRoutes
                /\ CanUseLink(scene.net, ask.node, ask.via)

VARIABLES
    net,       \* World.network
    logic,     \* the kind of each node's logic
    asks,      \* the pings the host or a logic has yet to send
    ticks,     \* ticks in which a logic has sent of its own accord
    air,       \* packets on their way, in order
    stuck,     \* Replayer.stuck: what it has caught, as packets to send
    answered,  \* the pongs healthy nodes have sent: [about, via, to]
    ponged     \* the pongs that got where they were addressed: [node, about]

vars == <<net, logic, asks, ticks, air, stuck, answered, ponged>>

OwnRoute(n, l) == <<Hop(net.name[n], net.name[l])>>

(* outgoing: a fresh packet.  `span`, the hops its route starts with, is   *)
(* kept for a property only.                                               *)
Packet(n, l, from, to, event) ==
    [sender |-> n, via |-> l, from |-> from, to |-> to, event |-> event,
     ttl |-> DefaultTtl, trace |-> <<>>, span |-> Len(to)]

Ping(n) == [kind |-> "ping", about |-> n]
Flood == [kind |-> "flood", about |-> Root]

-----------------------------------------------------------------------------
(* Context: what a logic can send.  Every operation is the set of packets  *)
(* it queues.                                                              *)

(* Fault: only the end of the way back is kept. *)
ReplyToLastHop(n, l, p, event) == {Packet(n, l, OwnRoute(n, l), <<Last(p.from)>>, event)}

Reply(n, l, p, event) == {Packet(n, l, OwnRoute(n, l), p.from, event)}

SendAll(n, l, event) ==
    {Packet(n, l, OwnRoute(n, l), <<Hop(Everyone, net.name[l])>>, event)}

(* forward and relay: the event goes on with its hop budget and its trace. *)
Forward(n, p, l, from, to) == {[p EXCEPT !.sender = n, !.via = l, !.from = from, !.to = to]}

(* Fault: any way out will do. *)
AnyLinkOut(n, name) == net.subscriptions[n]

ExternalLinkNamed(n, name) ==
    LET subs == net.subscriptions[n]
    IN  IF name = AnyLink /\ subs # {} THEN {CHOOSE l \in subs : TRUE}
        ELSE {l \in subs : net.name[l] = name}

InternalLinkNamed(n, name) == {l \in net.internal[n] : net.name[l] = name}

ViaMe(n, l, route) == Prepended(route, Hop(net.name[n], net.name[l]))

-----------------------------------------------------------------------------
(* The built-in logics: what node n does with packet p, taken by `rule` on *)
(* link l                                                                  *)

AnswerPing(n, l, p) ==
    IF p.event.kind = "ping"
    THEN Reply(n, l, p, [p.event EXCEPT !.kind = "pong"]) ELSE {}

(* Fault: the way back is not recorded. *)
ForwardOutAsIs(n, p) ==
    UNION {Forward(n, p, l, p.from, p.to) : l \in ExternalLinkNamed(n, Head(p.to).link)}

ForwardOut(n, p) ==
    UNION {UNION {Forward(n, p, l, from, p.to) : from \in ViaMe(n, l, p.from)} :
              l \in ExternalLinkNamed(n, Head(p.to).link)}

ForwardIn(n, p, next) ==
    UNION {Forward(n, p, l, p.from, next) : l \in InternalLinkNamed(n, Head(next).link)}

GatewayReceives(n, l, rule, p) ==
    IF rule = "gateway" THEN ForwardOut(n, p)
    ELSE IF rule = "addressed" /\ Popped(p.to) # {}
         THEN UNION {ForwardIn(n, p, next) : next \in Popped(p.to)}
    ELSE AnswerPing(n, l, p)

BridgeReceives(n, l, rule, p) ==
    IF rule = "addressed" THEN AnswerPing(n, l, p)
    ELSE UNION {Forward(n, p, other, p.from, p.to) : other \in UsableLinks(net, n) \ {l}}

OnReceived(n, l, rule, p) ==
    CASE logic[n] \in {"responder", "beacon", "scanner"} -> AnswerPing(n, l, p)
      [] logic[n] = "gateway" -> GatewayReceives(n, l, rule, p)
      [] logic[n] = "bridge" -> BridgeReceives(n, l, rule, p)
      [] logic[n] = "echo" -> Reply(n, l, p, p.event)
      [] logic[n] = "amplifier" -> SendAll(n, l, p.event)
      [] OTHER -> {}

(* on_tick                                                                 *)

BeaconTick(n) == UNION {SendAll(n, l, Ping(n)) : l \in net.subscriptions[n]}

(* The bus a scanner shares with its parent, and the links it asks for     *)
(* beyond it.                                                              *)
ScannerTick(n) ==
    LET parent == net.parent[n]
        buses == {l \in net.subscriptions[n] : net.owner[l] = parent}
    IN  IF parent = Nil \/ buses = {} THEN {}
        ELSE LET bus == CHOOSE l \in buses : TRUE
             IN  {Packet(n, bus, OwnRoute(n, bus), <<Hop(Everyone, net.name[l])>>, Ping(n)) :
                     l \in net.subscriptions[parent]}

OnTick(n) ==
    CASE logic[n] = "beacon" -> BeaconTick(n)
      [] logic[n] = "scanner" -> ScannerTick(n)
      [] logic[n] = "flooder" -> UNION {SendAll(n, l, Flood) : l \in UsableLinks(net, n)}
      [] logic[n] = "replayer" -> stuck[n]
      [] OTHER -> {}

-----------------------------------------------------------------------------
Init ==
    /\ \E scene \in Scenes :
          net = scene.net /\ logic = scene.logic /\ asks = scene.asks
    /\ ticks = 0 /\ air = <<>> /\ answered = {} /\ ponged = {}
    /\ stuck = [n \in NodeIds |-> {}]

Queued(q, packets) == FoldSet(LAMBDA p, waiting : Append(waiting, p), q, packets \ ToSet(q))

(* World::send_packet: the host sends a node's ping, with routes of its    *)
(* choosing.                                                               *)
Ask(ask) ==
    /\ ask \in asks
    /\ asks' = asks \ {ask}
    /\ air' = Queued(air, {Packet(ask.node, ask.via, ask.from, ask.to, Ping(ask.node))})
    /\ UNCHANGED <<net, logic, ticks, stuck, answered, ponged>>

(* The on_tick of every logic that has its turn.                           *)
TickLogics(due) ==
    /\ ticks < MaxTicks /\ due # {}
    /\ ticks' = ticks + 1
    /\ air' = Queued(air, UNION {OnTick(n) : n \in due})
    /\ UNCHANGED <<net, logic, asks, stuck, answered, ponged>>

(* Who takes the packet, and by which rule: a bridge wants everything.     *)
RuleFor(n, p) ==
    LET rule == Accepts(net, n, p.via, p.from, p.to)
    IN  IF rule = Nil /\ logic[n] = "bridge" THEN "forced" ELSE rule

Takers(p) == {n \in Audience(net, p.via) \ {p.sender, Root} : RuleFor(n, p) # Nil}

CopyFor(n, p) == [p EXCEPT !.ttl = IF @ = 0 THEN 0 ELSE @ - 1, !.trace = Append(@, n)]

Healthy(n) == logic[n] \notin {"echo", "replayer", "amplifier", "flooder", "crasher"}

Transmit ==
    /\ air # <<>>
    /\ LET p == Head(air)
           receivers == {n \in Takers(p) : CopyFor(n, p).ttl > 0}
           sent == UNION {OnReceived(n, p.via, RuleFor(n, p), CopyFor(n, p)) : n \in receivers}
       IN  /\ air' = Queued(Tail(air), sent)
           /\ stuck' = [n \in NodeIds |->
                 IF n \in receivers /\ logic[n] = "replayer" /\ stuck[n] = {}
                 THEN Reply(n, p.via, p, p.event) ELSE stuck[n]]
           /\ logic' = [n \in NodeIds |->
                 IF n \in receivers /\ logic[n] = "crasher" THEN NoLogic ELSE logic[n]]
           /\ answered' = answered \cup
                 {[about |-> q.event.about, via |-> q.via, to |-> q.to] :
                     q \in {q \in sent : /\ q.event.kind = "pong" /\ q.trace = <<>>
                                         /\ Healthy(q.sender)}}
           /\ ponged' = ponged \cup
                 {[node |-> n, about |-> p.event.about] :
                     n \in {n \in receivers : /\ p.event.kind = "pong" /\ Len(p.to) = 1
                                              /\ RuleFor(n, p) = "addressed"}}
    /\ UNCHANGED <<net, asks, ticks>>

Next ==
    \/ \E ask \in asks : Ask(ask)
    \/ \E due \in SUBSET {n \in NodeIds : OnTick(n) # {}} : TickLogics(due)
    \/ Transmit

Spec == Init /\ [][Next]_vars

(* The host keeps ticking.                                                 *)
FairSpec == Spec /\ WF_vars(Transmit)

-----------------------------------------------------------------------------
(* Properties *)

(* A pong that is addressed to a healthy node and goes no further is the   *)
(* answer to a ping of that node's own: hop by hop through gateways, with  *)
(* the same names in use elsewhere and faulty nodes answering, repeating   *)
(* and multiplying what they hear, nobody gets another's answer.           *)
PongsFindTheirAsker == \A pong \in ponged : Healthy(pong.node) => pong.about = pong.node

(* What a node sends to `to` on a link can be carried: the link is the one *)
(* the route starts with, or its owner is a gateway that is on that one.   *)
WithinReach(answer) ==
    \/ OnThisLink(net, answer.via, Head(answer.to).link)
    \/ LET owner == net.owner[answer.via]
       IN  /\ owner # Nil /\ logic[owner] = "gateway"
           /\ ExternalLinkNamed(owner, Head(answer.to).link) # {}

(* An answered ping brings its asker a pong, back through every gateway    *)
(* that forwarded the ping out: the way recorded hop by hop in `from` is   *)
(* the way back.  An answer may have to leave one gateway on its way.      *)
AnswersReachTheirAskers ==
    \A n \in NodeIds :
        (\E answer \in answered :
            /\ answer.about = n /\ Last(answer.to).node = net.name[n]
            /\ WithinReach(answer))
            ~> [node |-> n, about |-> n] \in ponged

(* "Route depth bounds this, so routed nodes alone cannot make an endless  *)
(* loop": without bridges a packet is forwarded out once at most, and      *)
(* otherwise only where its own route says, in a ring of gateways too.     *)
RoutesBoundTravel ==
    (\A n \in NodeIds : logic[n] # "bridge") =>
        \A p \in ToSet(air) : Len(p.trace) <= 1 + p.span - Len(p.to)

(* A bridge relays a packet it has relayed before only if the topology     *)
(* check has reported a relay loop: its two passes miss no loop that       *)
(* traffic can find, the ones a gateway completes included.                *)
RepeatsAreReported ==
    \A p \in ToSet(air) :
        (\E i, j \in DOMAIN p.trace : i < j /\ p.trace[i] = p.trace[j] /\ logic[p.trace[i]] = "bridge")
            => ClosingALoop(net, logic) # {}
=============================================================================
