--------------------------------- MODULE Abi ---------------------------------
(***************************************************************************)
(* The C ABI (emergence-ffi/src/lib.rs): one action per exported function  *)
(* that touches a world.  What a call answers is its status and whether it *)
(* wrote to its out-pointers; the host gives any handle, and any pointer   *)
(* may be null or not a string.  All failures are one status here.         *)
(*                                                                         *)
(* The World behind the ABI is a record; its tick is one step, which sends *)
(* any number of the packets waiting that its fuse allows.  What logics    *)
(* other than NPCs send is the business of Routing, how the fuse counts    *)
(* that of World.                                                          *)
(*                                                                         *)
(* The host passes packets on: `held` is what it was handed, with the      *)
(* budget left.  A scene says which calls it makes.                        *)
(*                                                                         *)
(* A definition marked `Fault:` is not the code's.                         *)
(***************************************************************************)
EXTENDS Templates

CONSTANTS
    Scenes,      \* the host's plans, see below
    DefaultTtl,  \* Packet::DEFAULT_TTL
    InboxLimit   \* World::MAX_HOST_INBOX

(* A scene is a world to start with, the calls that are made and what they *)
(* are given: handles, names, orders for templates, logics, limits.        *)
Calls == {"create", "wire", "remove", "ask", "build", "limit", "logic", "host", "send", "tick"}

VARIABLES
    scene,   \* what the host is up to
    world,   \* the World behind the handle
    held,    \* the packets the host has been handed: budget left, and hops made since it was fresh
    status,  \* what the last call returned
    wrote    \* what it wrote through its out-pointers

vars == <<scene, world, held, status, wrote>>

NewWorld(net, limits) ==
    [net |-> net, logics |-> [n \in NodeIds |-> NoLogic], hosts |-> {},
     pending |-> <<>>, inbox |-> <<>>, limits |-> limits,
     tick |-> 0, tripped |-> FALSE, refused |-> FALSE, panicked |-> FALSE]

Limits == [transmissions: Nat, pending: Nat]
Specs == ComputerSpecs \cup NpcSpecs \cup [app: Names]

ASSUME AbiAssumption ==
    /\ IsFiniteSet(NodeIds) /\ IsFiniteSet(LinkIds)
    /\ Ipc \in Names
    /\ {DefaultTtl, InboxLimit} \subseteq Nat \ {0}
    /\ \A plan \in Scenes :
          /\ plan.world = NewWorld(plan.world.net, plan.world.limits)
          /\ InOrder(plan.world.net) /\ Vacant(plan.world) /\ plan.world.limits \in Limits
          /\ plan.calls \subseteq Calls
          /\ plan.nodes \cup plan.senders \subseteq NodeIds /\ plan.links \subseteq LinkIds
          /\ plan.names \subseteq Names
          /\ \A order \in plan.orders : order \in [template: STRING, name: Names \cup {Nil}, spec: Specs]
          /\ plan.npc \in NpcSpecs /\ ValidNpc(plan.npc) /\ plan.kinds \subseteq LogicKinds \cup {"npc"}
          /\ plan.limits \subseteq Limits /\ plan.ticks \in Nat

-----------------------------------------------------------------------------
(* Answers *)

(* What is written: of a node that was built, also what it was to be.     *)
Nothing == [what |-> "nothing"]
Value == [what |-> "value"]

Fail == status' = "Failed" /\ wrote' = Nothing /\ UNCHANGED <<scene, world, held>>

Succeed(w, out) == status' = "Ok" /\ wrote' = out /\ world' = w /\ UNCHANGED <<scene, held>>

(* An operation's result, and what is written if it succeeded.             *)
Answer(result, out) ==
    IF result.ok THEN Succeed(result.world, out)
    ELSE status' = "Failed" /\ wrote' = Nothing /\ world' = result.world /\ UNCHANGED <<scene, held>>

(* Whether a pointer that must not be null is given.  A string argument    *)
(* that is null, or not UTF-8, is Nil.                                     *)
Pointer == BOOLEAN

(* At most `capacity` ids go to the array, the number of all to out_len.   *)
WriteIds(ids, capacity, array, length) ==
    IF ~length \/ (~array /\ capacity > 0) THEN Fail ELSE Succeed(world, Value)

-----------------------------------------------------------------------------
(* Network topology *)

CreateNodeCall ==
    \E name, kind \in scene.names \cup {Nil}, out \in Pointer :
        LET id == NewNodeId(world.net)
        IN  /\ world.net.issued \cap NodeIds # NodeIds
            /\ IF ~out \/ Nil \in {name, kind} THEN Fail
               ELSE Answer(InNetwork(world, CreateNode(world.net, id, name)), Value)

CreateLinkCall ==
    \E name \in scene.names \cup {Nil}, out \in Pointer :
        LET id == NewLinkId(world.net)
        IN  /\ world.net.issued \cap LinkIds # LinkIds
            /\ IF ~out \/ name = Nil THEN Fail
               ELSE Answer(InNetwork(world, CreateLink(world.net, id, name)), Value)

AddInternalLinkCall ==
    \E n \in scene.nodes, l \in scene.links :
        Answer(InNetwork(world, AddInternalLink(world.net, n, l)), Nothing)

(* A link whose raw value is 0 is no link.                                 *)
ConnectCall ==
    \E p, n \in scene.nodes, l \in scene.links \cup {Nil} :
        Answer(InNetwork(world, Connect(world.net, p, n, l)), Nothing)

SubscribeCall ==
    \E n \in scene.nodes, l \in scene.links : Answer(InNetwork(world, Subscribe(world.net, n, l)), Nothing)

UnsubscribeCall ==
    \E n \in scene.nodes, l \in scene.links : Answer(InNetwork(world, Unsubscribe(world.net, n, l)), Nothing)

DisconnectCall ==
    \E p, n \in scene.nodes : Answer(InNetwork(world, Disconnect(world.net, p, n)), Nothing)

RemoveNodeCall == \E n \in scene.nodes : Answer(RemoveWithLogic(world, n), Nothing)

RemoveLinkCall == \E l \in scene.links : Answer(InNetwork(world, RemoveLink(world.net, l)), Nothing)

(* The functions that only look: at a node, at a link, at the world.       *)
NodeQuery ==
    \E n \in scene.nodes, out \in Pointer :
        IF out /\ n \in world.net.nodes THEN Succeed(world, Value) ELSE Fail

LinkQuery ==
    \E l \in scene.links, out \in Pointer :
        IF out /\ l \in world.net.links THEN Succeed(world, Value) ELSE Fail

WorldQuery == \E out \in Pointer : IF out THEN Succeed(world, Value) ELSE Fail

ParentOf == NodeQuery
NodeName == NodeQuery
LinkName == LinkQuery
RootOf == WorldQuery
TickCount == WorldQuery
Snapshot == WorldQuery
Health == WorldQuery
FuseReport == WorldQuery

IdsOfNode(field) ==
    \E n \in scene.nodes, capacity \in 0..1, array, length \in Pointer :
        IF n \in world.net.nodes THEN WriteIds(field[n], capacity, array, length) ELSE Fail

Children == IdsOfNode(world.net.children)
InternalLinks == IdsOfNode(world.net.internal)
Subscriptions == IdsOfNode(world.net.subscriptions)

Subscribers ==
    \E l \in scene.links, capacity \in 0..1, array, length \in Pointer :
        IF l \in world.net.links
        THEN WriteIds(world.net.subscribers[l], capacity, array, length) ELSE Fail

-----------------------------------------------------------------------------
(* Templates *)

(* Handles left for a build: this bounds the number of builds.             *)
Enough(parts) ==
    /\ Cardinality(NodeIds \ world.net.issued) > parts
    /\ LinkIds \ world.net.issued # {}

(* serde's verdict: the spec is one of the template's own.  An order is a  *)
(* template, a name and a spec; no spec at all stands for the default one. *)
Parses(template, spec) ==
    DOMAIN spec = CASE template = "computer" -> {"services", "apps"}
                    [] template = "app" -> {"app"}
                    [] template = "npc" -> {"day", "schedule", "lines"}
                    [] OTHER -> {}

(* build_template: `at` is Nil for emergence_template_build.               *)
BuildTemplate(order, at) ==
    LET name == order.name
        spec == order.spec
    IN  IF ~Parses(order.template, spec) THEN Failed(world)
        ELSE CASE order.template = "computer" ->
                     IF at = Nil THEN BuildComputer(world, name, spec) ELSE BuildComputerAt(world, name, spec, at)
               [] order.template = "npc" ->
                     IF at = Nil THEN BuildNpc(world, name, spec) ELSE BuildNpcAt(world, name, spec, at)
               [] order.template = "app" ->
                     IF at = Nil THEN Failed(world) ELSE InstallApp(world, at.parent, spec.app, name)

TemplateBuild(at) ==
    \E order \in scene.orders, out \in Pointer :
        LET built == BuildTemplate(order, at)
        IN  /\ Enough(IF order.template = "computer" THEN Len(Parts(order.spec)) ELSE 0)
            /\ IF ~out \/ order.name = Nil THEN Fail
               ELSE Answer(built, [what |-> "built", order |-> order, at |-> at, root |-> built.node])

TemplateBuildDetached == TemplateBuild(Nil)

TemplateBuildAt ==
    \E p \in scene.nodes, l \in scene.links \cup {Nil} : TemplateBuild([parent |-> p, link |-> l])

-----------------------------------------------------------------------------
(* Limits and logic *)

Pick(new, old) == IF new = 0 THEN old ELSE new

SetLimits ==
    \E new \in scene.limits :
        Succeed([world EXCEPT !.limits = [transmissions |-> Pick(new.transmissions, @.transmissions),
                                          pending |-> Pick(new.pending, @.pending)]], Nothing)

(* The templates' logics first, then the engine's; "none" removes.         *)
SetLogicCall ==
    \E n \in scene.nodes, kind \in scene.kinds \cup {"unknown", Nil} :
        IF kind \in {"unknown", Nil} THEN Fail
         ELSE Answer(SetLogic(world, n, IF kind = "npc" THEN NewNpc(scene.npc) ELSE Kind(kind)), Nothing)

SetHost ==
    \E n \in scene.nodes, host \in BOOLEAN :
        IF n \notin world.net.nodes THEN Fail
        ELSE Succeed([world EXCEPT !.hosts = IF host THEN @ \cup {n} ELSE @ \ {n},
                                   !.logics[n] = IF host THEN NoLogic ELSE @], Nothing)

-----------------------------------------------------------------------------
(* Traffic.  A packet is where it is, what is left of its hop budget and   *)
(* the hops made since it was fresh.                                       *)

Packet(n, l, left, hops) == [sender |-> n, link |-> l, ttl |-> left, hops |-> hops]

Budget(ttl) == IF ttl = 0 THEN DefaultTtl ELSE ttl

(* outgoing and SendQueue::push.                                           *)
Push(w, packet) ==
    IF ~CanUseLink(w.net, packet.sender, packet.link) THEN Failed(w)
    ELSE IF Len(w.pending) >= w.limits.pending THEN Failed([w EXCEPT !.refused = TRUE])
    ELSE Built([w EXCEPT !.pending = Append(@, packet)], Nil)

(* The link is looked up among the node's own before anything is sent; nor *)
(* is a route that does not parse let through.                             *)
SendCall ==
    \E n \in scene.senders, l \in scene.links, good \in BOOLEAN :
        IF ~good \/ n \notin world.net.nodes \/ ~CanUseLink(world.net, n, l) THEN Fail
        ELSE Answer(Push(world, Packet(n, l, DefaultTtl, 0)), Nothing)

(* A fresh packet, or one the host was handed and passes on.               *)
Outgoing == {[ttl |-> 0, hops |-> 0]} \cup held

HostSend ==
    \E n \in scene.senders, l \in scene.links, p \in Outgoing, good \in BOOLEAN :
        IF ~good THEN Fail ELSE Answer(Push(world, Packet(n, l, Budget(p.ttl), p.hops)), Nothing)

(* World::push_direct.  The host that is told 0 has nothing to deliver.    *)
HostPush ==
    \E n \in scene.senders, p \in Outgoing, good, out \in Pointer :
        LET left == Budget(p.ttl) - 1
        IN  IF ~good \/ ~out \/ n \notin world.net.nodes THEN Fail
            ELSE /\ status' = "Ok" /\ wrote' = Value
                 /\ held' = held \cup (IF left = 0 THEN {} ELSE {[ttl |-> left, hops |-> p.hops + 1]})
                 /\ UNCHANGED <<scene, world>>

(* Fault: the inbox is emptied whether or not there is where to write. *)
DrainFirst(out) ==
    /\ world' = [world EXCEPT !.inbox = <<>>]
    /\ held' = held \cup (IF out THEN Range(world.inbox) ELSE {})
    /\ status' = IF out THEN "Ok" ELSE "Failed"
    /\ wrote' = IF out THEN Value ELSE Nothing
    /\ UNCHANGED scene

Drain(out) ==
    IF ~out THEN Fail
    ELSE /\ world' = [world EXCEPT !.inbox = <<>>]
         /\ held' = held \cup Range(world.inbox)
         /\ status' = "Ok" /\ wrote' = Value
         /\ UNCHANGED scene

DrainHostDeliveries == \E out \in Pointer : Drain(out)

-----------------------------------------------------------------------------
(* Ticks *)

Npcs == {n \in NodeIds : world.logics[n].kind = "npc"}

Announce(w, n, links) == FoldLeft(LAMBDA v, l : Push(v, Packet(n, l, DefaultTtl, 0)).world, w, links)

(* An NPC whose goal changes announces it on every link it is on; one that *)
(* panics is removed.                                                      *)
OnTick(w, n, tick) ==
    LET npc == w.logics[n]
        goal == GoalAt(npc, tick)
    IN  IF TickPanics(npc) THEN [w EXCEPT !.logics[n] = NoLogic, !.panicked = TRUE]
        ELSE IF goal = npc.goal THEN w
        ELSE Announce([w EXCEPT !.logics[n].goal = goal], n, SetToSeq(w.net.subscriptions[n]))

TickEach(w, tick, npcs) == FoldLeft(LAMBDA v, n : OnTick(v, n, tick), w, npcs)

TickLogics(tick) == TickEach(world, tick, SetToSeq(Npcs))

(* Fault: the last hop is delivered too. *)
ArrivesAtAll(packet) == TRUE

Arrives(packet) == packet.ttl > 1

HandToHost(w, packet) ==
    LET copy == [ttl |-> packet.ttl - 1, hops |-> packet.hops + 1]
        room == IF Len(w.inbox) >= InboxLimit THEN Tail(w.inbox) ELSE w.inbox
    IN  IF Arrives(packet) THEN [w EXCEPT !.inbox = Append(room, copy)] ELSE w

HandToHosts(w, packet, hosts) == FoldLeft(LAMBDA v, n : HandToHost(v, packet), w, hosts)

Sendable(w, packet) == CanUseLink(w.net, packet.sender, packet.link)

(* A host hears the links it subscribes to; any NPC that hears the link    *)
(* may be talked to.                                                       *)
Transmit(w, packet) ==
    LET hosts == (w.net.subscribers[packet.link] \cap w.hosts) \ {packet.sender, Root}
        talked == {n \in Audience(w.net, packet.link) \ {packet.sender, Root} :
                      w.logics[n].kind = "npc" /\ TalkPanics(w.logics[n])}
    IN  IF ~Sendable(w, packet) THEN w
        ELSE HandToHosts([w EXCEPT !.logics = [n \in NodeIds |-> IF n \in talked THEN NoLogic ELSE @[n]],
                                   !.panicked = @ \/ talked # {}],
                         packet, SetToSeq(hosts))

TransmitAll(w, packets) == FoldLeft(Transmit, w, packets)

(* tick: the logics, then as many packets as the fuse lets through.        *)
TickCall ==
    /\ world.tick < scene.ticks
    /\ LET started == TickLogics(world.tick + 1)
           batch == started.pending
       IN  \E k \in 0..Len(batch) :
              LET rest == SubSeq(batch, k + 1, Len(batch))
                  done == TransmitAll([started EXCEPT !.pending = rest], SubSeq(batch, 1, k))
                  tripped == rest # <<>> \/ started.refused
              IN  /\ Cardinality({i \in 1..k : Sendable(started, batch[i])}) <= world.limits.transmissions
                  /\ batch # <<>> => k > 0
                  /\ world' = [done EXCEPT !.tick = @ + 1, !.tripped = tripped, !.refused = FALSE]
                  /\ status' = IF tripped THEN "FuseTripped" ELSE "Ok"
                  /\ wrote' = Nothing
                  /\ UNCHANGED <<scene, held>>

-----------------------------------------------------------------------------
Init ==
    /\ scene \in Scenes
    /\ world = scene.world
    /\ held = {} /\ status = "Ok" /\ wrote = Nothing

Next ==
    \/ "create" \in scene.calls /\ (CreateNodeCall \/ CreateLinkCall)
    \/ "wire" \in scene.calls /\ \/ AddInternalLinkCall \/ ConnectCall \/ SubscribeCall
                                 \/ UnsubscribeCall \/ DisconnectCall
    \/ "remove" \in scene.calls /\ (RemoveNodeCall \/ RemoveLinkCall)
    \/ "ask" \in scene.calls /\ \/ ParentOf \/ NodeName \/ LinkName \/ RootOf \/ TickCount
                                \/ Snapshot \/ Health \/ FuseReport
                                \/ Children \/ InternalLinks \/ Subscriptions \/ Subscribers
    \/ "build" \in scene.calls /\ (TemplateBuildDetached \/ TemplateBuildAt)
    \/ "limit" \in scene.calls /\ SetLimits
    \/ "logic" \in scene.calls /\ SetLogicCall
    \/ "host" \in scene.calls /\ (SetHost \/ HostPush \/ DrainHostDeliveries)
    \/ "send" \in scene.calls /\ (SendCall \/ HostSend)
    \/ "tick" \in scene.calls /\ TickCall

Spec == Init /\ [][Next]_vars

-----------------------------------------------------------------------------
(* Properties *)

(* The world, but for the handles used up and the count of refused sends.  *)
Visible(w) == [w EXCEPT !.net.issued = {}, !.refused = FALSE]

(* "On failure nothing is written and nothing changes" (lib.rs:15): true   *)
(* of template builds that fail half-way, of connections and departures    *)
(* made of several steps, and of drains with nowhere to write.             *)
FailureChangesNothing ==
    [][status' = "Failed" => Visible(world') = Visible(world) /\ held' = held /\ wrote' = Nothing]_vars

(* Between two states: inside the new node is what the order says, the     *)
(* node is where it was to go, and taking it out again would undo it all,  *)
(* but for a link its parent had to take on.                               *)
BuiltAsOrdered(root, order, at) ==
    LET new == world'.net.nodes \ world.net.nodes
        inner == new \ {root}
        bus == world'.net.internal[root]
        undone == RemoveWithLogic(world', root).world
        parts == IF order.template = "computer" THEN Parts(order.spec) ELSE <<>>
    IN  /\ Visible([undone EXCEPT !.net.owner = world.net.owner, !.net.internal = world.net.internal])
               = Visible(world)
        /\ new = Subtree(world'.net, root)
        /\ world'.net.parent[root] = (IF at = Nil THEN Nil ELSE at.parent)
        /\ at # Nil /\ order.template # "app" => {at.link} \ {Nil} = world'.net.subscriptions[root]
        /\ world'.net.name[root] = order.name
        /\ Cardinality(inner) = Len(parts)
        /\ \A i \in DOMAIN parts : \E n \in inner :
              /\ world'.net.name[n] = parts[i].name
              /\ world'.logics[n] = parts[i].logic
              /\ world'.net.subscriptions[n] = bus
        /\ Cardinality(bus) = (IF order.template = "computer" THEN 1 ELSE 0)
        /\ world'.logics[root] # NoLogic

(* What was there before a build is there after it, and as it was, and     *)
(* what was built is whole: the root is where it was to go, all inside it  *)
(* is on its bus and nowhere else, with the names asked for and with its   *)
(* logic (computer.rs:224).                                                *)
BuiltWhole ==
    [][wrote' # wrote /\ wrote'.what = "built" => BuiltAsOrdered(wrote'.root, wrote'.order, wrote'.at)]_vars

(* A host that passes on what is left of a packet's budget never gives it  *)
(* a fresh one, though 0 stands for that: no delivery and no push hands it *)
(* a packet with nothing left (lib.rs:1323, world.rs:779).                 *)
RelaysRunOut ==
    \A p \in Range(world.pending) \cup Range(world.inbox) \cup held : p.hops + p.ttl <= DefaultTtl

(* An NPC the builders let through can follow its schedule whatever the    *)
(* hour, and always has something to say: it never panics, and once the    *)
(* clock runs it has a goal (npc.rs:54).                                   *)
NpcsKeepGoing ==
    /\ ~world.panicked
    /\ \A n \in Npcs : world.logics[n].goal = 0 => GoalAt(world.logics[n], world.tick) # 0
=============================================================================
