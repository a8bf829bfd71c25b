------------------------------- MODULE World --------------------------------
(***************************************************************************)
(* The clock of the engine: World::tick with its send queue and its fuse,  *)
(* the logic callbacks it runs, the calls a host makes between two ticks,  *)
(* and the deliveries a host node collects (emergence-engine/src/world.rs  *)
(* and logic.rs).                                                          *)
(*                                                                         *)
(* tick() is one call in the code and many steps here, because user code   *)
(* runs inside it: on_tick of every logic, then on_received of each logic  *)
(* that takes a packet, each free to use its Context or to panic.          *)
(*                                                                         *)
(* Addresses are left out: whether a listener that is not a host takes a   *)
(* packet (accepts, wants) is a free choice.  Of a packet's trace only its *)
(* length is kept, as `hops`.  Statistics, packet numbers, the trace log   *)
(* and the monitor change nothing here.                                    *)
(*                                                                         *)
(* A definition marked `Fault:` is not the code's.  It is a mistake the    *)
(* definition after it could have held, kept to show that a property below *)
(* would notice.                                                           *)
(***************************************************************************)
EXTENDS NetworkOps, Naturals, Sequences, FiniteSetsExt

CONSTANTS
    InitialNetwork,   \* what the host has built before its first tick
    InitialLogics,    \* the nodes it has given a logic by then
    InitialHosts,     \* the nodes it has made host nodes by then
    Managed,          \* nodes the host reconfigures while the world runs
    Talkers,          \* nodes the host sends packets for
    Events,           \* what packets carry
    Once,             \* an event that is not sent again while it travels
    DefaultTtl,       \* Packet::DEFAULT_TTL
    Ttls,             \* hop budgets a host asks for in send_packet
    LimitChoices,     \* the Limits in use: [transmissions, deliveries, pending]
    MaxInbox,         \* World::MAX_HOST_INBOX
    MaxCalls,         \* most Context calls one callback makes
    MaxRefusals,      \* bound of the model on refused_sends
    PanicsIn          \* the callbacks that may panic

Budget == Max(Ttls \cup {DefaultTtl})

ASSUME WorldAssumption ==
    /\ InOrder(InitialNetwork)
    /\ InitialLogics \cup InitialHosts \subseteq InitialNetwork.nodes
    /\ InitialLogics \cap InitialHosts = {}
    /\ Managed \cup Talkers \subseteq NodeIds \ {Root}
    /\ DefaultTtl \in Nat /\ Ttls \subseteq Nat
    /\ \E most \in Ttls \cup {DefaultTtl} : \A ttl \in Ttls \cup {DefaultTtl} : ttl <= most
    /\ LimitChoices \subseteq [transmissions: Nat, deliveries: Nat, pending: Nat]
    /\ LimitChoices # {}
    /\ MaxInbox \in Nat \ {0} /\ MaxCalls \in Nat /\ MaxRefusals \in Nat
    /\ PanicsIn \subseteq {"on_start", "on_tick", "on_received", "wants"}

Outgoing == [sender: NodeIds, via: LinkIds, event: Events, ttl: 0..Budget, hops: 0..Budget]

VARIABLES
    net,             \* World.network
    logics,          \* nodes with a ControllerLogic
    hosts,           \* nodes whose behaviour lives in the host
    limits,          \* World.limits
    pending,         \* packets waiting for the next tick
    reserved,        \* packets of the batch that have not gone out, as last counted
    refused_sends,   \* health.refused_sends: sends refused so far
    refused_seen,    \* refused_sends when the last tick ended
    lost,            \* history: a send got no place since a tick last ended
    outcome,         \* how the last tick ended
    inbox,           \* deliveries waiting for the host
    phase,           \* where tick() is
    todo,            \* logics whose on_tick is still to run
    batch,           \* packets due in this tick
    current,         \* the packet on its link, or Nil
    awaiting,        \* listeners it has not been offered to
    copies,          \* listeners that took it
    transmissions,   \* counted so far in this tick
    deliveries,      \* counted so far in this tick
    running          \* the callback in progress, or Nil

refusalVars == <<refused_sends, refused_seen, lost>>
queueVars == <<pending, reserved, refusalVars>>
tickVars == <<phase, todo, batch, current, awaiting, copies, transmissions, deliveries>>
worldVars == <<net, logics, hosts, limits, inbox, outcome>>
vars == <<worldVars, queueVars, tickVars, running>>

Idle == phase = "idle" /\ running = Nil
Callback(kind, n, p) == [kind |-> kind, node |-> n, packet |-> p, calls |-> 0]

Init ==
    /\ net = InitialNetwork
    /\ logics = InitialLogics /\ hosts = InitialHosts
    /\ limits \in LimitChoices
    /\ pending = <<>> /\ reserved = 0
    /\ refused_sends = 0 /\ refused_seen = 0 /\ lost = FALSE
    /\ outcome = "completed"
    /\ inbox = <<>>
    /\ phase = "idle"
    /\ todo = {} /\ batch = <<>> /\ current = Nil /\ awaiting = {}
    /\ copies = 0 /\ transmissions = 0 /\ deliveries = 0
    /\ running = Nil

-----------------------------------------------------------------------------
(* The send queue *)

Enqueue(out) == pending' = Append(pending, out) /\ UNCHANGED refused_sends

Refuse ==
    /\ refused_sends < MaxRefusals
    /\ refused_sends' = refused_sends + 1
    /\ UNCHANGED pending

(* Fault: the packets of the batch are not counted. *)
PushUnreserved(out) ==
    /\ IF Len(pending) >= limits.pending THEN Refuse ELSE Enqueue(out)
    /\ UNCHANGED <<reserved, refused_seen>>

(* SendQueue::push: the batch still to go out counts against the limit.    *)
Push(out) ==
    /\ IF Len(pending) + reserved >= limits.pending THEN Refuse ELSE Enqueue(out)
    /\ UNCHANGED <<reserved, refused_seen>>

(* A send as its caller sees it: afterwards its packet is queued, or lost. *)
Offer(out) ==
    /\ Push(out)
    /\ lost' = (lost \/ pending' # Append(pending, out))

NewPacket(n, l, e, ttl) == [sender |-> n, via |-> l, event |-> e, ttl |-> ttl, hops |-> 0]

Travels(e) ==
    \/ \E i \in DOMAIN pending : pending[i].event = e
    \/ \E i \in DOMAIN batch : batch[i].event = e
    \/ current # Nil /\ current.event = e

(* What the root of a call can ask to send: any event, but Once only when  *)
(* it is nowhere in the world.                                             *)
Sendable(e) == e = Once => ~Travels(Once)

-----------------------------------------------------------------------------
(* The host, between two ticks *)

(* World::send.  A send by a node that is not on the link is an error that *)
(* changes nothing.                                                        *)
Send(n, l, e) ==
    /\ Idle
    /\ CanUseLink(net, n, l) /\ Sendable(e)
    /\ Offer(NewPacket(n, l, e, DefaultTtl))
    /\ UNCHANGED <<worldVars, tickVars, running>>

(* World::send_packet, with a hop budget of the host's choosing.           *)
SendPacket(n, l, e, ttl) ==
    /\ Idle
    /\ CanUseLink(net, n, l) /\ Sendable(e)
    /\ Offer(NewPacket(n, l, e, ttl))
    /\ UNCHANGED <<worldVars, tickVars, running>>

Drain ==
    /\ Idle
    /\ inbox # <<>>
    /\ inbox' = <<>>
    /\ UNCHANGED <<net, logics, hosts, limits, outcome, queueVars, tickVars, running>>

SetHost(n, host) ==
    /\ Idle
    /\ n \in net.nodes
    /\ hosts' = IF host THEN hosts \cup {n} ELSE hosts \ {n}
    /\ logics' = IF host THEN logics \ {n} ELSE logics
    /\ UNCHANGED <<net, limits, inbox, outcome, queueVars, tickVars, running>>

(* World::set_logic runs on_start first and attaches the logic after it,   *)
(* whether or not the node is a host node.                                 *)
SetLogic(n) ==
    /\ Idle
    /\ n \in net.nodes
    /\ running' = Callback("on_start", n, Nil)
    /\ UNCHANGED <<worldVars, queueVars, tickVars>>

RemoveLogic(n) ==
    /\ Idle
    /\ n \in net.nodes
    /\ logics' = logics \ {n}
    /\ UNCHANGED <<net, hosts, limits, inbox, outcome, queueVars, tickVars, running>>

SetLimits(new) ==
    /\ Idle
    /\ limits' = new
    /\ UNCHANGED <<net, logics, hosts, inbox, outcome, queueVars, tickVars, running>>

(* World::remove_node takes the logic of everything it deletes along.      *)
RemoveNodeWithLogic(n) ==
    /\ Idle
    /\ RemoveNode(net, n).ok
    /\ net' = RemoveNode(net, n).net
    /\ LET removed == net.nodes \ net'.nodes
       IN  logics' = logics \ removed /\ hosts' = hosts \ removed
    /\ UNCHANGED <<limits, inbox, outcome, queueVars, tickVars, running>>

(* network_mut(): the graph changes under packets already queued, and a    *)
(* node deleted this way leaves its logic behind.                          *)
ChangeNetwork(result) ==
    /\ Idle
    /\ result.ok
    /\ net' = result.net
    /\ UNCHANGED <<logics, hosts, limits, inbox, outcome, queueVars, tickVars, running>>

-----------------------------------------------------------------------------
(* tick() *)

StartTick ==
    /\ Idle
    /\ phase' = "on_tick"
    /\ todo' = logics
    /\ UNCHANGED <<worldVars, queueVars, batch, current, awaiting, copies, transmissions,
                   deliveries, running>>

OnTick(n) ==
    /\ phase = "on_tick" /\ running = Nil
    /\ n \in todo
    /\ todo' = todo \ {n}
    /\ running' = Callback("on_tick", n, Nil)
    /\ UNCHANGED <<worldVars, queueVars, phase, batch, current, awaiting, copies,
                   transmissions, deliveries>>

TakeBatch ==
    /\ phase = "on_tick" /\ running = Nil /\ todo = {}
    /\ phase' = "deliver"
    /\ batch' = pending
    /\ pending' = <<>>
    /\ UNCHANGED <<worldVars, reserved, refusalVars, todo, current, awaiting, copies,
                   transmissions, deliveries, running>>

(* The size of the audience tick() counts on before it looks closer: every *)
(* subscriber and the owner.                                               *)
Expected(out) ==
    IF out.via \in net.links THEN Cardinality(net.subscribers[out.via]) + 1 ELSE 0

TransmissionsSpent == transmissions >= limits.transmissions

(* Fault: only copies already handed out count. *)
DeliveriesReached(out) == deliveries >= limits.deliveries

(* Fault: no exception for the first packet. *)
DeliveriesTooMany(out) == deliveries + Expected(out) > limits.deliveries

DeliveriesSpent(out) ==
    deliveries > 0 /\ deliveries + Expected(out) > limits.deliveries

Between == phase = "deliver" /\ current = Nil /\ running = Nil

(* Everyone who hears the sender on the link.  The root never listens, and *)
(* a host node hears only the links it subscribes to.                      *)
Listeners(n, l) ==
    {m \in Audience(net, l) \ {n, Root} : m \in hosts => m \in net.subscribers[l]}

(* The next packet goes onto its link, unless its sender has left it.      *)
Transmit ==
    /\ Between /\ batch # <<>>
    /\ LET out == Head(batch) IN
       /\ ~TransmissionsSpent /\ ~DeliveriesSpent(out)
       /\ batch' = Tail(batch)
       /\ reserved' = Len(batch) - 1
       /\ IF CanUseLink(net, out.sender, out.via)
          THEN /\ current' = out
               /\ awaiting' = Listeners(out.sender, out.via)
          ELSE UNCHANGED <<current, awaiting>>
    /\ UNCHANGED <<worldVars, pending, refusalVars, phase, todo, copies, transmissions,
                   deliveries, running>>

TakenBy(out) == [out EXCEPT !.ttl = IF @ = 0 THEN 0 ELSE @ - 1, !.hops = @ + 1]

(* hand_to_host: the oldest delivery makes room for the newest.            *)
HandToHost(n, p) ==
    LET kept == IF Len(inbox) >= MaxInbox THEN Tail(inbox) ELSE inbox
    IN  inbox' = Append(kept, [receiver |-> n, link |-> p.via, packet |-> p])

Decline(n) ==
    /\ current # Nil /\ running = Nil
    /\ n \in awaiting \ hosts
    /\ awaiting' = awaiting \ {n}
    /\ UNCHANGED <<worldVars, queueVars, phase, todo, batch, current, copies,
                   transmissions, deliveries, running>>

(* A copy counts as delivered even when its hop budget ends here.          *)
Deliver(n) ==
    /\ current # Nil /\ running = Nil
    /\ n \in awaiting
    /\ awaiting' = awaiting \ {n}
    /\ copies' = copies + 1
    /\ LET p == TakenBy(current) IN
       \/ /\ p.ttl = 0
          /\ UNCHANGED <<inbox, running>>
       \/ /\ p.ttl > 0 /\ n \in hosts
          /\ HandToHost(n, p)
          /\ UNCHANGED running
       \/ /\ p.ttl > 0 /\ n \notin hosts
          /\ running' = IF n \in logics THEN Callback("on_received", n, p) ELSE Nil
          /\ UNCHANGED inbox
    /\ UNCHANGED <<net, logics, hosts, limits, outcome, queueVars, phase, todo, batch,
                   current, transmissions, deliveries>>

FinishTransmit ==
    /\ current # Nil /\ running = Nil /\ awaiting = {}
    /\ current' = Nil
    /\ copies' = 0
    /\ transmissions' = transmissions + 1
    /\ deliveries' = deliveries + copies
    /\ UNCHANGED <<worldVars, queueVars, phase, todo, batch, awaiting, running>>

(* Fault: what was sent during the tick goes first. *)
HeldLast(held) == pending \o held

(* The rest of the batch is put back ahead of what this tick has queued.   *)
HeldFirst(held) == held \o pending

Ended(result) ==
    /\ phase' = "idle"
    /\ pending' = HeldFirst(batch)
    /\ batch' = <<>>
    /\ reserved' = 0
    /\ lost' = FALSE
    /\ transmissions' = 0 /\ deliveries' = 0
    /\ outcome' = result
    /\ UNCHANGED <<net, logics, hosts, limits, inbox, refused_sends, todo, current, awaiting,
                   copies, running>>

Unreported == refused_sends > refused_seen

(* Fault: the count is taken only when it is what is reported, so what was *)
(* refused in a tick that tripped is told once more. *)
EndTickOnReport(limit) ==
    IF limit = "completed" /\ Unreported
    THEN Ended("queue") /\ refused_seen' = refused_sends
    ELSE Ended(limit) /\ UNCHANGED refused_seen

(* Refused sends are reported unless another limit tripped first.          *)
EndTick(limit) ==
    /\ Ended(IF limit = "completed" /\ Unreported THEN "queue" ELSE limit)
    /\ refused_seen' = refused_sends

Trip ==
    /\ Between /\ batch # <<>>
    /\ \/ TransmissionsSpent /\ EndTick("transmissions")
       \/ ~TransmissionsSpent /\ DeliveriesSpent(Head(batch)) /\ EndTick("deliveries")

Complete == Between /\ batch = <<>> /\ EndTick("completed")

(* A logic that panics in `wants` is not caught by run_logic: tick()       *)
(* unwinds to the host, and its locals, the batch among them, are lost.    *)
PanicInWants(n) ==
    /\ "wants" \in PanicsIn
    /\ current # Nil /\ running = Nil
    /\ n \in awaiting \cap logics
    /\ phase' = "idle"
    /\ outcome' = "unwound"
    /\ batch' = <<>> /\ current' = Nil /\ awaiting' = {}
    /\ copies' = 0 /\ transmissions' = 0 /\ deliveries' = 0
    /\ UNCHANGED <<net, logics, hosts, limits, inbox, queueVars, todo, running>>

-----------------------------------------------------------------------------
(* A callback, using its Context *)

Calling == running # Nil /\ running.calls < MaxCalls

(* Context::send and reply: a fresh packet from the logic's node.          *)
CallSend(l, e) ==
    /\ Calling /\ e # Once
    /\ CanUseLink(net, running.node, l)
    /\ Offer(NewPacket(running.node, l, e, DefaultTtl))
    /\ running' = [running EXCEPT !.calls = @ + 1]
    /\ UNCHANGED <<worldVars, tickVars>>

(* Fault: relaying renews the hop budget. *)
FreshOnward(p, n, l) == [p EXCEPT !.sender = n, !.via = l, !.ttl = DefaultTtl]

(* Context::forward and relay: the event goes on with what is left of its  *)
(* hop budget.                                                             *)
Onward(p, n, l) == [p EXCEPT !.sender = n, !.via = l]

CallForward(l) ==
    /\ Calling /\ running.packet # Nil
    /\ CanUseLink(net, running.node, l)
    /\ Offer(Onward(running.packet, running.node, l))
    /\ running' = [running EXCEPT !.calls = @ + 1]
    /\ UNCHANGED <<worldVars, tickVars>>

Return ==
    /\ running # Nil
    /\ running' = Nil
    /\ logics' = IF running.kind = "on_start" THEN logics \cup {running.node} ELSE logics
    /\ UNCHANGED <<net, hosts, limits, inbox, outcome, queueVars, tickVars>>

(* Inside a tick the logic is removed and the tick goes on.  A panic in    *)
(* on_start reaches the host, and the new logic is never attached.         *)
Panic ==
    /\ running # Nil /\ running.kind \in PanicsIn
    /\ running' = Nil
    /\ logics' = IF running.kind = "on_start" THEN logics ELSE logics \ {running.node}
    /\ UNCHANGED <<net, hosts, limits, inbox, outcome, queueVars, tickVars>>

-----------------------------------------------------------------------------
HostStep ==
    \/ \E n \in Talkers, l \in net.links, e \in Events :
          \/ Send(n, l, e)
          \/ \E ttl \in Ttls : SendPacket(n, l, e, ttl)
    \/ Drain
    \/ \E n \in Managed : \/ \E host \in BOOLEAN : SetHost(n, host)
                          \/ SetLogic(n)
                          \/ RemoveLogic(n)
                          \/ RemoveNodeWithLogic(n)
                          \/ ChangeNetwork(RemoveNode(net, n))
                          \/ \E l \in net.links : \/ ChangeNetwork(Unsubscribe(net, n, l))
                                                  \/ ChangeNetwork(Subscribe(net, n, l))
    \/ \E new \in LimitChoices : SetLimits(new)

EngineStep ==
    \/ TakeBatch
    \/ Transmit
    \/ FinishTransmit
    \/ Trip
    \/ Complete
    \/ Return
    \/ \E n \in NodeIds : OnTick(n) \/ Decline(n) \/ Deliver(n)

LogicStep ==
    \/ Panic
    \/ \E n \in NodeIds : PanicInWants(n)
    \/ \E l \in net.links : CallForward(l) \/ \E e \in Events : CallSend(l, e)

Next == HostStep \/ StartTick \/ EngineStep \/ LogicStep

(* tick() runs to its end once called, and the host keeps calling it.      *)
Fairness == WF_vars(EngineStep) /\ SF_vars(StartTick)

Spec == Init /\ [][Next]_vars
FairSpec == Spec /\ Fairness

-----------------------------------------------------------------------------
(* Properties *)

(* The fuse on deliveries gives way to one packet only: a packet that is   *)
(* not the first to be delivered in its tick never takes the count past    *)
(* the limit, because its audience was counted before it was sent and no   *)
(* callback changes who listens.                                           *)
DeliveriesFused ==
    current # Nil /\ deliveries > 0 => deliveries + copies <= limits.deliveries

(* A tick transmits no more than was queued when its deliveries began,     *)
(* and so no more than max_pending: what is sent while it delivers waits.  *)
(* What it hands to a host that does not collect is bounded as well.       *)
TickBounded ==
    /\ Len(inbox) <= MaxInbox
    /\ phase = "deliver" =>
          \E choice \in LimitChoices :
              transmissions + (IF current = Nil THEN 0 ELSE 1) + Len(batch) <= choice.pending

(* Every packet that waits carries the hops it has made and the hops it    *)
(* has left, and together they never exceed what it was first given:       *)
(* relaying does not renew the budget, so every loop dies out.             *)
HopBudget ==
    \A q \in {pending, batch} : \A i \in DOMAIN q : q[i].ttl + q[i].hops <= Budget

(* A send that finds no place is never passed over in silence, and told no *)
(* more than once: whoever made it, between two ticks, in a callback or in *)
(* a tick that unwound, a tick that trips no other limit ends as "queue"   *)
(* if a send was lost since a tick last ended, and as "completed" if not.  *)
RefusalsReportedOnce ==
    [][phase = "deliver" /\ phase' = "idle" /\ outcome' \in {"completed", "queue"}
        => (outcome' = "queue" <=> lost)]_vars

(* The batch, what is pending and the reserved count make one bounded FIFO *)
(* queue, over ticks, tripped fuses and changes of limits.                 *)
Queue == INSTANCE PacketQueue WITH
    Packets <- Outgoing,
    Caps <- {choice.pending : choice \in LimitChoices},
    queue <- batch \o pending,
    cap <- limits.pending

ImplementsQueue == Queue!Spec

(* "They are delivered by later ticks if the host keeps going": whatever   *)
(* an event meets (held back by a fuse, relayed around a loop, refused),   *)
(* the world is done with it sooner or later.                              *)
EventsSettle == Travels(Once) ~> ~Travels(Once)

=============================================================================
