------------------------------- MODULE Monitor ------------------------------
(***************************************************************************)
(* Monitor and TraceLog (emergence-engine/src/monitor.rs, trace.rs) and    *)
(* the calls the World makes of them in a tick (world.rs): which alerts    *)
(* are raised, kept and told to the host when the fuse trips.              *)
(*                                                                         *)
(* The monitor is one record, m, and its methods are operators on it.      *)
(* The hash a packet is remembered by is the packet's `key`, and the ticks *)
(* it was received in are a bag.  A network and a way of using it, a       *)
(* Scene, is chosen at the start; what a packet's receivers do with it is  *)
(* a free choice.  Recording of packets is off (set_trace_packets), so the *)
(* trace holds alerts only; severities are numbers.                        *)
(*                                                                         *)
(* A definition marked `Fault:` is not the code's.                         *)
(***************************************************************************)
EXTENDS Relays

CONSTANTS
    Scenes,        \* what can happen, see below
    Keys,          \* packets a node can receive
    ReplayMemory,  \* REPLAY_MEMORY
    Capacity,      \* TraceLog::CAPACITY
    LatestFor,     \* how long a worse alert of a check is kept as its latest
    ReportOver     \* how far back a fuse report looks

(* The network, the logics and the settings to start with, and what there  *)
(* is to do: packets (keys) that `senders` send and receivers meet with    *)
(* one of `fates`, or the host pushes to `pushed`, `sends` of them for a   *)
(* tick; nodes the host moves about or gives a logic of `kinds`; and the   *)
(* bound on the ticks.  A slot map has no more than 2^64 keys.             *)
ASSUME MonitorAssumption ==
    /\ IsFiniteSet(NodeIds \cup LinkIds)
    /\ {ReplayMemory, Capacity, LatestFor} \subseteq Nat \ {0}
    /\ ReportOver \in Nat /\ ReportOver >= 2 * LatestFor
    /\ \A scene \in Scenes :
          /\ InOrder(scene.net) /\ scene.keys \subseteq Keys
          /\ scene.config.cooldown \in Nat \ {0} /\ scene.config.window \in Nat
          /\ \A fate \in scene.fates :
                /\ fate.is \in {"declined", "expired", "kept", "handled", "panicked"}
                /\ fate.is \in {"handled", "panicked"} => fate.sends \in Nat

VARIABLES
    scene,     \* what can happen
    net,       \* World.network
    logic,     \* the kind of each node's logic
    topology_changed,
    tick,      \* World.tick_count
    running,   \* a tick is under way
    sent,      \* packets sent since the last tick began
    m,         \* World.monitor and World.trace
    report,    \* World.fuse: the alerts it names, Nil when not tripped
    received   \* history: every reception the monitor was told of

vars == <<scene, net, logic, topology_changed, tick, running, sent, m, report, received>>

Warning == 1
Error == 2
WholeNetwork == "network"   \* Subject::Network

(* Threshold::severity: no severity is 0.                                  *)
Severity(threshold, value) ==
    IF threshold.error > 0 /\ value >= threshold.error THEN Error
    ELSE IF threshold.warn > 0 /\ value >= threshold.warn THEN Warning
    ELSE 0

(* HashMap::insert *)
Insert(map, key, value) ==
    [k \in DOMAIN map \cup {key} |-> IF k = key THEN value ELSE map[k]]

Alert(check, severity, subject, value) ==
    [tick |-> tick, check |-> check, severity |-> severity, subject |-> subject, value |-> value]

-----------------------------------------------------------------------------
(* TraceLog *)

(* Fault: the newest makes room. *)
PushOverNewest(mon, event) ==
    IF Len(mon.events) = Capacity
    THEN [mon EXCEPT !.events = Append(Front(@), event), !.discarded = @ + 1]
    ELSE [mon EXCEPT !.events = Append(@, event)]

Push(mon, event) ==
    IF Len(mon.events) = Capacity
    THEN [mon EXCEPT !.events = Append(Tail(@), event), !.discarded = @ + 1]
    ELSE [mon EXCEPT !.events = Append(@, event)]

-----------------------------------------------------------------------------
(* Monitor.  `asked` and `raised` keep every alert for the properties:     *)
(* those a check found reason for, and those not suppressed.               *)

(* Fault: how bad it was before does not matter. *)
SuppressedAtAnySeverity(mon, alert) ==
    LET key == <<alert.check, alert.subject>>
    IN  key \in DOMAIN mon.fired /\ alert.tick - mon.fired[key].tick < scene.config.cooldown

Suppressed(mon, alert) ==
    LET key == <<alert.check, alert.subject>>
    IN  /\ key \in DOMAIN mon.fired
        /\ alert.severity <= mon.fired[key].severity
        /\ alert.tick - mon.fired[key].tick < scene.config.cooldown

(* Fault: the newest alert is the latest. *)
AlwaysKept(mon, alert) == TRUE

KeptAsLatest(mon, alert) ==
    alert.check \in DOMAIN mon.latest =>
        \/ alert.severity >= mon.latest[alert.check].severity
        \/ alert.tick > mon.latest[alert.check].tick + LatestFor

(* Fault: an alert raised before is not entered again. *)
FiredFirst(mon, alert) ==
    IF <<alert.check, alert.subject>> \in DOMAIN mon.fired THEN mon.fired
    ELSE Insert(mon.fired, <<alert.check, alert.subject>>, [tick |-> alert.tick, severity |-> alert.severity])

Fired(mon, alert) ==
    Insert(mon.fired, <<alert.check, alert.subject>>, [tick |-> alert.tick, severity |-> alert.severity])

Raise(mon, alert) ==
    LET known == [mon EXCEPT !.asked = @ \cup {alert}]
    IN  IF Suppressed(mon, alert) THEN known
        ELSE Push([known EXCEPT !.fired = Fired(mon, alert),
                                !.raised = Append(@, alert),
                                !.latest = IF KeptAsLatest(mon, alert)
                                           THEN Insert(@, alert.check, alert) ELSE @],
                  alert)

RaiseOver(mon, threshold, check, subject, value) ==
    LET severity == Severity(threshold, value)
    IN  IF severity = 0 THEN mon ELSE Raise(mon, Alert(check, severity, subject, value))

(* How many a bag, or a function to numbers, has in all.                   *)
Total(bag) == FoldSet(LAMBDA x, sum : sum + bag[x], 0, DOMAIN bag)

(* Fault: nothing leaves the window. *)
Remembered(seen, window) == seen

InWindow(seen, window) == Restrict(seen, {t0 \in DOMAIN seen : tick - t0 < window})

(* What on_delivered has of a packet once the memory has made room.        *)
Replays(mon, key) ==
    IF key \in DOMAIN mon.replay THEN mon.replay
    ELSE Insert(IF Cardinality(DOMAIN mon.replay) >= ReplayMemory THEN <<>> ELSE mon.replay,
                key, EmptyBag)

OnDelivered(mon, n, key) ==
    LET config == scene.config
        replays == Replays(mon, <<n, key>>)
        seen == InWindow(replays[<<n, key>>] (+) SetToBag({tick}), config.window)
    IN  IF config.replay = [warn |-> 0, error |-> 0] THEN mon
        ELSE RaiseOver([mon EXCEPT !.replay = Insert(replays, <<n, key>>, seen)],
                       config.replay, "replay", n, Total(seen))

OnTransmit(mon, n, l) ==
    [mon EXCEPT !.network_sends = @ + 1,
                !.link_sends = @ (+) SetToBag({l}), !.node_sends = @ (+) SetToBag({n})]

OnTtlExpired(mon, n) == Raise(mon, Alert("ttl_expired", Error, n, 0))
OnLogicPanicked(mon, n) == Raise(mon, Alert("logic_panicked", Error, n, 0))
OnHandled(mon, n, sends) == RaiseOver(mon, scene.config.amplification, "amplification", n, sends)

(* Rate checks for the tick that just ended; the counters start again.     *)
EndRates(mon) ==
    LET config == scene.config
        links == FoldSet(LAMBDA l, over : RaiseOver(over, config.link, "link_rate", l, mon.link_sends[l]),
                         RaiseOver(mon, config.network, "network_rate", WholeNetwork, mon.network_sends),
                         BagToSet(mon.link_sends))
        nodes == FoldSet(LAMBDA n, over : RaiseOver(over, config.node, "node_rate", n, mon.node_sends[n]),
                         links, BagToSet(mon.node_sends))
    IN  [nodes EXCEPT !.network_sends = 0, !.link_sends = EmptyBag, !.node_sends = EmptyBag]

RecentAlerts(mon) == {alert \in Range(mon.latest) : alert.tick + ReportOver >= tick}

CheckTopology(mon, now) ==
    FoldSet(LAMBDA n, found : Raise(found, [Alert("relay_cycle", Error, n, 0) EXCEPT !.tick = now]),
            [mon EXCEPT !.checked = now], ClosingALoop(net, logic))

-----------------------------------------------------------------------------
(* World *)

Init ==
    /\ scene \in Scenes
    /\ net = scene.net /\ logic = scene.logic /\ topology_changed = TRUE
    /\ tick = 0 /\ running = FALSE /\ sent = 0 /\ report = Nil /\ received = EmptyBag
    /\ m = [network_sends |-> 0, link_sends |-> EmptyBag, node_sends |-> EmptyBag, replay |-> <<>>,
            fired |-> <<>>, latest |-> <<>>, events |-> <<>>, discarded |-> 0, drained |-> 0,
            asked |-> {}, raised |-> <<>>, checked |-> 0]

StartTick ==
    /\ ~running /\ tick < scene.ticks
    /\ tick' = tick + 1 /\ running' = TRUE /\ sent' = 0 /\ report' = Nil
    /\ m' = IF topology_changed THEN CheckTopology(m, tick') ELSE m
    /\ topology_changed' = FALSE
    /\ UNCHANGED <<scene, net, logic, received>>

(* What becomes of one listener's copy of a packet.                        *)
CopyHandled(mon, n, key, fate) ==
    CASE fate.is = "declined" -> mon
      [] fate.is = "expired" -> OnTtlExpired(mon, n)
      [] fate.is = "kept" -> OnDelivered(mon, n, key)
      [] fate.is = "handled" -> OnHandled(OnDelivered(mon, n, key), n, fate.sends)
      [] fate.is = "panicked" -> OnHandled(OnLogicPanicked(OnDelivered(mon, n, key), n), n, fate.sends)

Receives(fate) == fate.is \in {"kept", "handled", "panicked"}

Transmit(n, l, key) ==
    /\ running /\ sent < scene.sends /\ CanUseLink(net, n, l)
    /\ LET listeners == Audience(net, l) \ {n, Root}
       IN  \E fates \in [listeners -> scene.fates] :
           LET panicked == {k \in listeners : fates[k].is = "panicked"}
               takers == {k \in listeners : Receives(fates[k])}
           IN  /\ \A k \in panicked : logic[k] # NoLogic
               /\ m' = FoldSet(LAMBDA k, mon : CopyHandled(mon, k, key, fates[k]),
                               OnTransmit(m, n, l), listeners)
               /\ logic' = [k \in NodeIds |-> IF k \in panicked THEN NoLogic ELSE logic[k]]
               /\ received' = received (+) SetToBag({<<k, key, tick>> : k \in takers})
    /\ sent' = sent + 1
    /\ UNCHANGED <<scene, net, topology_changed, tick, running, report>>

(* tripped: whether the tick reached a limit.                              *)
EndTick(tripped) ==
    /\ running
    /\ running' = FALSE
    /\ m' = EndRates(m)
    /\ report' = IF tripped THEN RecentAlerts(m') ELSE Nil
    /\ UNCHANGED <<scene, net, logic, topology_changed, tick, sent, received>>

(* push_direct: with its last hop, the packet runs out here.               *)
PushDirect(n, key, last) ==
    /\ ~running /\ sent < scene.sends /\ n \in net.nodes
    /\ sent' = sent + 1
    /\ m' = IF last THEN OnTtlExpired(m, n) ELSE OnDelivered(m, n, key)
    /\ received' = IF last THEN received ELSE received (+) SetToBag({<<n, key, tick>>})
    /\ UNCHANGED <<scene, net, logic, topology_changed, tick, running, report>>

DrainTrace ==
    /\ ~running /\ m.events # <<>>
    /\ m' = [m EXCEPT !.drained = @ + Len(m.events), !.events = <<>>]
    /\ UNCHANGED <<scene, net, logic, topology_changed, tick, running, sent, report, received>>

(* network_mut: whatever is done with it, the next tick looks again.       *)
ChangeNetwork(next) ==
    /\ ~running
    /\ net' = next
    /\ topology_changed' = TRUE
    /\ UNCHANGED <<scene, logic, tick, running, sent, m, report, received>>

(* Fault: only the network counts as topology. *)
SetLogicUnnoticed(n, kind) ==
    /\ ~running /\ n \in net.nodes
    /\ logic' = [logic EXCEPT ![n] = kind]
    /\ UNCHANGED <<scene, net, topology_changed, tick, running, sent, m, report, received>>

(* set_logic, set_logic_kind and, with no logic, set_host.                 *)
SetLogic(n, kind) ==
    /\ ~running /\ n \in net.nodes
    /\ logic' = [logic EXCEPT ![n] = kind]
    /\ topology_changed' = TRUE
    /\ UNCHANGED <<scene, net, tick, running, sent, m, report, received>>

RemoveNodeWithLogic(n) ==
    /\ ~running
    /\ net' = RemoveNode(net, n).net
    /\ logic' = [k \in NodeIds |-> IF k \in net'.nodes THEN logic[k] ELSE NoLogic]
    /\ topology_changed' = TRUE
    /\ UNCHANGED <<scene, tick, running, sent, m, report, received>>

HostChanges(n) ==
    \/ \E l \in LinkIds : ChangeNetwork(Subscribe(net, n, l).net)
    \/ \E l \in LinkIds : ChangeNetwork(Unsubscribe(net, n, l).net)
    \/ \E kind \in scene.kinds : SetLogic(n, kind)
    \/ RemoveNodeWithLogic(n)

Next ==
    \/ StartTick
    \/ \E n \in scene.senders, l \in net.links, key \in scene.keys : Transmit(n, l, key)
    \/ \E tripped \in BOOLEAN : EndTick(tripped)
    \/ \E n \in scene.pushed, key \in scene.keys, last \in BOOLEAN : PushDirect(n, key, last)
    \/ DrainTrace
    \/ \E n \in scene.movable : HostChanges(n)

Spec == Init /\ [][Next]_vars

-----------------------------------------------------------------------------
(* Properties *)

(* The two passes of the union-find miss no loop: they report one whenever *)
(* some bridge would hear what it relays, back over another link.  And     *)
(* they report no other, unless a gateway sits on both sides of one of its *)
(* links: it then relays one way only between two of them, and the passes  *)
(* take every relay to go both ways.                                       *)
CyclesFound ==
    /\ HasRelayLoop(net, logic) => ClosingALoop(net, logic) # {}
    /\ ClosingALoop(net, logic) # {} =>
          HasRelayLoop(net, logic) \/ ~TwoSided(net, logic)

(* A relay loop in the topology is known: whichever way it came to be,     *)
(* and whatever was taken away since, the next tick has looked, and every  *)
(* node that closes a loop has an alert no older than the cooldown was     *)
(* when it did.                                                            *)
CycleKnown ==
    ~topology_changed =>
        \A n \in ClosingALoop(net, logic) : \E i \in DOMAIN m.raised :
            /\ m.raised[i].check = "relay_cycle" /\ m.raised[i].subject = n
            /\ m.raised[i].tick > m.checked - scene.config.cooldown

Receptions(n, key) ==
    Total([t0 \in {t \in 0..tick : tick - t < scene.config.window /\ BagIn(<<n, key, t>>, received)} |->
              received[<<n, key, t0>>]])

(* A replay alert counts what was received: never more than came in the    *)
(* window, though old entries are only cleared away when the same packet   *)
(* comes again; and, as long as the memory has had room for all there was, *)
(* no less.  The memory keeps to its bound.                                *)
ReplaysCounted ==
    LET now == {alert \in m.asked : alert.check = "replay" /\ alert.tick = tick}
        heard == {<<entry[1], entry[2]>> : entry \in BagToSet(received)}
    IN  /\ Cardinality(DOMAIN m.replay) <= ReplayMemory
        /\ \A alert \in now : \E key \in Keys : alert.value <= Receptions(alert.subject, key)
        /\ Cardinality(heard) <= ReplayMemory =>
              \A pair \in heard :
                 LET count == Receptions(pair[1], pair[2])
                     severity == Severity(scene.config.replay, count)
                 IN  severity # 0 /\ BagIn(<<pair[1], pair[2], tick>>, received) =>
                        \E alert \in now : /\ alert.subject = pair[1]
                                           /\ alert.value = count /\ alert.severity = severity

(* "Alerts are de-duplicated so a storm cannot flood the trace": of one    *)
(* check about one subject no three alerts are raised within a cooldown,   *)
(* the second of two being the worse.                                      *)
FewAlerts ==
    \A i, j, k \in DOMAIN m.raised :
        /\ i < j /\ j < k
        /\ \A x, y \in {i, j, k} : /\ m.raised[x].check = m.raised[y].check
                                   /\ m.raised[x].subject = m.raised[y].subject
        => m.raised[k].tick - m.raised[i].tick >= scene.config.cooldown

(* What is suppressed has been told: every condition a check has found is  *)
(* covered by an alert of it that is at least as bad and was raised less   *)
(* than a cooldown before; and every alert raised has been drained, is     *)
(* counted as discarded, or still waits in the trace, the newest in the    *)
(* order they were raised.                                                 *)
NothingGoesUnseen ==
    /\ IsSuffix(m.events, m.raised)
    /\ Len(m.raised) = m.drained + m.discarded + Len(m.events)
    /\ \A alert \in m.asked : \E i \in DOMAIN m.raised :
          /\ m.raised[i].check = alert.check /\ m.raised[i].subject = alert.subject
          /\ m.raised[i].severity >= alert.severity
          /\ alert.tick - m.raised[i].tick \in 0..(scene.config.cooldown - 1)

(* The report of a tripped fuse names the worst: for every alert raised    *)
(* lately it has one of the same check that is at least as bad, although   *)
(* only one alert of each check is kept and a report does not go back for  *)
(* ever.                                                                   *)
RootCauseKept ==
    [][running /\ ~running' /\ report' # Nil =>
          \A i \in DOMAIN m'.raised :
              m'.raised[i].tick + LatestFor >= tick =>
                  \E alert \in report' : /\ alert.check = m'.raised[i].check
                                         /\ alert.severity >= m'.raised[i].severity]_vars
=============================================================================
