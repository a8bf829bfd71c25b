------------------------------ MODULE Scenarios ------------------------------
(***************************************************************************)
(* The sandbox's worlds (emergence-sandbox/src): the calls a NativeWorld   *)
(* makes through the C ABI (native.rs), and the Builder (scenarios.rs)     *)
(* that the scenarios and the stress tests are written with.  A plan is    *)
(* the sequence of the Builder's calls one of them makes; where the code   *)
(* keeps a handle in a variable, a plan names the node or the link.        *)
(*                                                                         *)
(* An operation answers as those of Templates do; the `node` of an answer  *)
(* is the handle that was made, of a link if a link was made.              *)
(***************************************************************************)
EXTENDS Templates

(* NativeWorld::new *)
FreshWorld == [net |-> NewNetwork, logics |-> [n \in NodeIds |-> NoLogic], hosts |-> {}, tick |-> 0]

OwnLink(w, owner, link) == InNetwork(w, AddInternalLink(w.net, owner, link))
ConnectNode(w, parent, node, link) == InNetwork(w, Connect(w.net, parent, node, link))
SubscribeNode(w, node, link) == InNetwork(w, Subscribe(w.net, node, link))

-----------------------------------------------------------------------------
(* Builder *)

(* A link of the root's, if the root is its owner.                         *)
InternalLink(w, owner, name) ==
    LET made == MakeLink(w, name)
    IN  IF made.ok THEN [OwnLink(made.world, owner, made.node) EXCEPT !.node = made.node] ELSE made

(* Nested in the parent and attached to each of the links, of which the    *)
(* first becomes the parent's.                                             *)
Joined(connected, node, links) ==
    FoldLeft(LAMBDA b, l : IF b.ok THEN SubscribeNode(b.world, node, l) ELSE b, connected, links)

Attached(w, parent, node, links) ==
    LET connected == ConnectNode(w, parent, node, IF links = <<>> THEN Nil ELSE Head(links))
    IN  [Joined(connected, node, IF links = <<>> THEN <<>> ELSE Tail(links)) EXCEPT !.node = node]

NodeOn(w, parent, name, links) ==
    LET made == MakeNode(w, name) IN IF made.ok THEN Attached(made.world, parent, made.node, links) ELSE made

Device(w, parent, name, links, kind) ==
    LET placed == NodeOn(w, parent, name, links)
    IN  IF placed.ok THEN SetLogic(placed.world, placed.node, Kind(kind)) ELSE placed

Computer(w, parent, name, links, spec) ==
    LET built == BuildComputer(w, name, spec)
    IN  IF built.ok THEN Attached(built.world, parent, built.node, links) ELSE built

Npc(w, name, links, spec) ==
    LET built == BuildNpc(w, name, spec)
    IN  IF built.ok THEN Attached(built.world, Root, built.node, links) ELSE built

-----------------------------------------------------------------------------
(* Plans *)

BuilderCalls ==
    [is: {"link"}, at: Names, name: Names, links: Seq(Names)]
    \cup [is: {"device"}, at: Names, name: Names, links: Seq(Names), kind: LogicKinds]
    \cup [is: {"computer"}, at: Names, name: Names, links: Seq(Names), spec: ComputerSpecs]
    \cup [is: {"npc"}, at: Names, name: Names, links: Seq(Names), spec: NpcSpecs]

NodeCalled(w, name) == CHOOSE n \in w.net.nodes : w.net.name[n] = name

(* One of the parent's own, as bus_of finds a computer's, or any other.    *)
LinkCalled(w, parent, name) ==
    LET called == {l \in w.net.links : w.net.name[l] = name}
    IN  IF called \cap w.net.internal[parent] # {} THEN CHOOSE l \in called \cap w.net.internal[parent] : TRUE
        ELSE CHOOSE l \in called : TRUE

Call(b, call) ==
    LET w == b.world
        at == NodeCalled(w, call.at)
        links == [i \in DOMAIN call.links |-> LinkCalled(w, at, call.links[i])]
    IN  IF ~b.ok THEN b
        ELSE IF call.is = "link" THEN InternalLink(w, at, call.name)
        ELSE IF call.is = "device" THEN Device(w, at, call.name, links, call.kind)
        ELSE IF call.is = "computer" THEN Computer(w, at, call.name, links, call.spec)
        ELSE Npc(w, call.name, links, call.spec)

(* Scenario::build and StressTest::setup: the first call that fails ends   *)
(* it.                                                                     *)
Carried(plan) == FoldLeft(Call, Built(FreshWorld, Root), plan)
==============================================================================
